---- MODULE Spec2Model ----
(***************************************************************************)
(* Street View Image Processor: the analysis orchestration of              *)
(* image-processor/main.py (POST /analyze, POST /analyze-batch,            *)
(* GET /results/{image_id}) over the relational store of database.py and   *)
(* the model client of ollama_client.py.                                   *)
(*                                                                         *)
(* Every client issues one request.  A request handler is a sequence of    *)
(* steps; each step holds at most one statement against the store or one   *)
(* call of the model client, so handlers of different requests (served by  *)
(* different workers over the same database) interleave between any two   *)
(* of them.  The store holds what is committed: a session's pending rows   *)
(* are local to its request until db.commit().                             *)
(***************************************************************************)
EXTENDS Naturals, Sequences, FiniteSets

\* ------------------------------------------------------------------ bounds
MaxClients == 2
MaxAnalyses == 2
MaxBatch == 2
MaxBatchAnalyses == 1
MaxDuration == 2
MaxListRows == 3
MaxLimit == 3
MaxOffset == 2

Clients == 1..MaxClients

\* --------------------------------------------------------- the environment
\* The files under INPUT_DIR, and the filenames a caller may name.
InputDir == {"a.jpg"}
Filenames == InputDir \cup {"missing.jpg"}

OLLAMA_MODEL == "llava:13b"

\* The strings a caller may put in `analyses`: the four documented kinds and
\* one that is none of them.
AnalysisTypes == {"description", "object_detection", "ocr", "custom", "bogus"}

\* Optional[str]: None, or a string (which may be empty).
NoPrompt == [given |-> FALSE, text |-> ""]
Prompts == {NoPrompt, [given |-> TRUE, text |-> ""],
            [given |-> TRUE, text |-> "count the cars"]}

SeqsUpTo(S, n) == UNION {[1..k -> S] : k \in 0..n}

RECURSIVE SumSeq(_)
SumSeq(s) == IF s = <<>> THEN 0 ELSE Head(s) + SumSeq(Tail(s))

\* The indices of the elements of s that pass Test.
Indices(s, Test(_)) == {i \in 1..Len(s) : Test(s[i])}

Min(S) == CHOOSE x \in S : \A y \in S : x <= y

\* ------------------------------------------------------------------- state
VARIABLES
  images,            \* table images, in insertion order
  image_id_seq,      \* the serial behind images.id: the last value drawn
  analysis_results,  \* table analysis_results, in insertion order
  client             \* per client: its request and its handler's locals

vars == <<images, image_id_seq, analysis_results, client>>

Idle ==
  [pc |-> "idle",
   endpoint |-> "none",
   filenames |-> <<>>, analyses |-> <<>>, custom_prompt |-> NoPrompt,
   fidx |-> 1,                 \* analyze_batch: position in request.filenames
   batch_results |-> <<>>,     \* analyze_batch: results
   db_image |-> 0,             \* analyze_image: db_image.id (0: none)
   idx |-> 1,                  \* analyze_image: position in request.analyses
   results |-> <<>>,           \* analyze_image: results, a map by kind
   total_processing_time |-> 0,
   session |-> <<>>,           \* db: rows added and not yet committed
   calls |-> <<>>,             \* history: the model client's calls, in order
   started_after |-> {},       \* history: the clients finished at arrival
   analyzed_only |-> FALSE,    \* list_images: the query parameters
   limit |-> 0,
   offset |-> 0,
   error |-> "none",
   response |-> <<>>]

Init ==
  /\ images = <<>>
  /\ image_id_seq = 0
  /\ analysis_results = <<>>
  /\ client = [c \in Clients |-> Idle]

Finished(s) == s.pc \in {"done", "error"}

\* Clients are numbered in the order their requests arrive.
Arrives(c) ==
  /\ client[c].pc = "idle"
  /\ \A d \in Clients : d < c => client[d].pc # "idle"

\* ---------------------------------------------------------- database.py
\* Image.filename: unique=True.  An INSERT of a filename the table holds
\* violates the constraint.
\* (Faulty variant: the column without its constraint.)
NoUniqueConstraint(filename) == FALSE
UniqueViolation(filename) ==
  \E i \in 1..Len(images) : images[i].filename = filename

\* sessionmaker(autocommit=False, ...): an added row is written at commit.
\* (Faulty variant: every added row is written at once.)
AutocommitOn == TRUE
Autocommit == FALSE

\* db.query(Image).filter(Image.filename == filename).first(): the id of the
\* row, 0 for None.
FindImage(filename) ==
  LET hits == Indices(images, LAMBDA row : row.filename = filename)
  IN IF hits = {} THEN 0 ELSE images[Min(hits)].id

\* ------------------------------------------------------- ollama_client.py
\* What OllamaClient.analyze_image returns: a success with the text and the
\* elapsed time, or, on any RequestException (a timeout, a transport error, a
\* non-success status raised by raise_for_status), a failure with the error.
\* One requests.post per call, no retry.
UpstreamErrors == {"Timeout"}
ClientOutcomes ==
  {[success |-> TRUE, model |-> OLLAMA_MODEL, response |-> "a street",
    processing_time_ms |-> d] : d \in 1..MaxDuration}
  \cup
  {[success |-> FALSE, model |-> OLLAMA_MODEL, error |-> e] : e \in UpstreamErrors}

\* ----------------------------------------------------------------- main.py
\* image_path.exists()
\* (Faulty variant: the check left out.)
FileAlwaysExists(filename) == TRUE
FileExists(filename) == filename \in InputDir

\* Python truth of an Optional[str].
Truthy(p) == p.given /\ p.text # ""

\* The if/elif chain of the analysis loop: the kinds that reach the client.
\* (Faulty variants: `custom` dispatched without looking at the prompt; no else
\* branch.)
InvokesAnyCustom(analysis_type, custom_prompt) ==
  analysis_type \in {"description", "object_detection", "ocr", "custom"}
InvokesAnything(analysis_type, custom_prompt) == TRUE
Invokes(analysis_type, custom_prompt) ==
  \/ analysis_type \in {"description", "object_detection", "ocr"}
  \/ analysis_type = "custom" /\ Truthy(custom_prompt)

\* The else branch's result.
UnknownType(analysis_type) ==
  [success |-> FALSE, error |-> "Unknown analysis type: " \o analysis_type]

\* results[analysis_type] = value
\* (Faulty variant: results.setdefault(analysis_type, value).)
PutFirst(map, key, value) ==
  [k \in DOMAIN map \cup {key} |-> IF k \in DOMAIN map THEN map[k] ELSE value]
Put(map, key, value) ==
  [k \in DOMAIN map \cup {key} |-> IF k = key THEN value ELSE map[k]]

\* analyze_image(request, background_tasks, db=Depends(get_db)) against the
\* call analyze_image(analyze_req, db=db) of analyze_batch: the call binds
\* when every parameter without a default is supplied.
AnalyzeImageRequired == {"request", "background_tasks"}
BatchCallSupplied == {"request", "db"}
CallBinds == AnalyzeImageRequired \subseteq BatchCallSupplied

CurrentFile(s) == s.filenames[s.fidx]

\* An exception leaves analyze_image.  Under /analyze it ends the request;
\* under /analyze-batch the except clause records it and the loop goes on.
Raise(s, err) ==
  IF s.endpoint = "batch"
  THEN [s EXCEPT !.pc = "batch_loop",
                 !.batch_results = Append(@, [filename |-> CurrentFile(s),
                                              success |-> FALSE, error |-> err]),
                 !.fidx = @ + 1,
                 !.session = <<>>]
  ELSE [s EXCEPT !.pc = "error", !.error = err, !.session = <<>>]

\* analyze_image returns its AnalysisResponse.
Return(s, resp) ==
  IF s.endpoint = "batch"
  THEN [s EXCEPT !.pc = "batch_loop",
                 !.batch_results = Append(@, [filename |-> CurrentFile(s),
                                              success |-> TRUE, result |-> resp]),
                 !.fidx = @ + 1]
  ELSE [s EXCEPT !.pc = "done", !.response = resp]

\* analyze_image up to the lookup: the existence check, then the query for the
\* image record.
Enter(s) ==
  IF ~FileExists(CurrentFile(s))
  THEN Raise(s, "404")
  ELSE LET found == FindImage(CurrentFile(s))
       IN [s EXCEPT !.pc = IF found = 0 THEN "create" ELSE "analyses",
                    !.db_image = found,
                    !.idx = 1,
                    !.results = <<>>,
                    !.total_processing_time = 0]

\* POST /analyze arrives.
PostAnalyze(c, filename, analyses, custom_prompt) ==
  /\ Arrives(c)
  /\ client' = [client EXCEPT ![c] =
       Enter([@ EXCEPT !.endpoint = "analyze",
                       !.filenames = <<filename>>,
                       !.analyses = analyses,
                       !.custom_prompt = custom_prompt,
                       !.started_after = {d \in Clients : Finished(client[d])}])]
  /\ UNCHANGED <<images, image_id_seq, analysis_results>>

\* db.add(db_image); db.commit(); db.refresh(db_image).  The INSERT draws an id
\* from the serial whether or not it succeeds.
CreateImage(c) ==
  LET s == client[c] IN
  /\ s.pc = "create"
  /\ image_id_seq' = image_id_seq + 1
  /\ IF UniqueViolation(CurrentFile(s))
     THEN /\ client' = [client EXCEPT ![c] = Raise(s, "IntegrityError")]
          /\ UNCHANGED images
     ELSE /\ images' = Append(images, [id |-> image_id_seq + 1,
                                       filename |-> CurrentFile(s),
                                       created_at |-> image_id_seq + 1,
                                       created_by |-> c])
          /\ client' = [client EXCEPT ![c] =
               [s EXCEPT !.pc = "analyses", !.db_image = image_id_seq + 1]]
  /\ UNCHANGED analysis_results

\* total_processing_time += result['processing_time_ms']
\* (Faulty variant: `=` for `+=`.)
AccumulateLast(total, result) == result.processing_time_ms
Accumulate(total, result) == total + result.processing_time_ms

\* db.commit(): the session's pending rows are INSERTed, in the order added;
\* no row of the table is touched.
\* (Faulty variant: a new row replaces the rows of its image and kind.)
CommittedUpsert(table, session) ==
  SelectSeq(table, LAMBDA row :
    ~\E i \in 1..Len(session) :
        /\ session[i].image_id = row.image_id
        /\ session[i].analysis_type = row.analysis_type) \o session
Committed(table, session) == table \o session

\* The AnalysisResult the loop adds for a successful result.
AnalysisRecord(c, s, analysis_type, result) ==
  [image_id |-> s.db_image,
   model_name |-> result.model,
   analysis_type |-> analysis_type,
   result_data |-> result.response,
   processing_time_ms |-> result.processing_time_ms,
   created_by |-> c, created_at_file |-> s.fidx]

\* One iteration of `for analysis_type in request.analyses`, given the result
\* of the if/elif chain.
Iteration(c, s, analysis_type, result, called) ==
  LET logged == IF called
                THEN [s EXCEPT !.calls = Append(@, [analysis_type |-> analysis_type,
                                                    file |-> s.fidx,
                                                    result |-> result])]
                ELSE s
      next == [logged EXCEPT !.idx = @ + 1]
  IN IF result.success
     THEN /\ client' = [client EXCEPT ![c] =
               [next EXCEPT
                  !.results = Put(@, analysis_type, [response |-> result.response]),
                  !.total_processing_time = Accumulate(@, result),
                  !.session = IF Autocommit THEN @
                              ELSE Append(@, AnalysisRecord(c, s, analysis_type, result))]]
          /\ analysis_results' =
               IF Autocommit
               THEN Append(analysis_results,
                           AnalysisRecord(c, s, analysis_type, result))
               ELSE analysis_results
     ELSE /\ client' = [client EXCEPT ![c] =
               [next EXCEPT
                  !.results = Put(@, analysis_type, [error |-> result.error])]]
          /\ UNCHANGED analysis_results

\* An iteration whose kind reaches the model client.
Analyze(c) ==
  LET s == client[c] IN
  /\ s.pc = "analyses"
  /\ s.idx <= Len(s.analyses)
  /\ Invokes(s.analyses[s.idx], s.custom_prompt)
  /\ \E result \in ClientOutcomes :
       Iteration(c, s, s.analyses[s.idx], result, TRUE)
  /\ UNCHANGED <<images, image_id_seq>>

\* An iteration that falls to the else branch.
RejectType(c) ==
  LET s == client[c] IN
  /\ s.pc = "analyses"
  /\ s.idx <= Len(s.analyses)
  /\ ~Invokes(s.analyses[s.idx], s.custom_prompt)
  /\ Iteration(c, s, s.analyses[s.idx], UnknownType(s.analyses[s.idx]), FALSE)
  /\ UNCHANGED <<images, image_id_seq>>

\* db.commit() after the loop, then the AnalysisResponse.
Commit(c) ==
  LET s == client[c] IN
  /\ s.pc = "analyses"
  /\ s.idx > Len(s.analyses)
  /\ analysis_results' = Committed(analysis_results, s.session)
  /\ client' = [client EXCEPT ![c] =
       Return([s EXCEPT !.session = <<>>],
              [image_id |-> s.db_image,
               filename |-> CurrentFile(s),
               model |-> OLLAMA_MODEL,
               results |-> s.results,
               processing_time_ms |-> s.total_processing_time])]
  /\ UNCHANGED <<images, image_id_seq>>

\* POST /analyze-batch arrives.
PostBatch(c, filenames, analyses) ==
  /\ Arrives(c)
  /\ client' = [client EXCEPT ![c] =
       [@ EXCEPT !.pc = "batch_loop",
                 !.endpoint = "batch",
                 !.filenames = filenames,
                 !.analyses = analyses,
                 !.started_after = {d \in Clients : Finished(client[d])}]]
  /\ UNCHANGED <<images, image_id_seq, analysis_results>>

\* One iteration of `for filename in request.filenames`: the try block builds
\* the AnalyzeRequest and calls analyze_image.
BatchCall(c) ==
  LET s == client[c] IN
  /\ s.pc = "batch_loop"
  /\ s.fidx <= Len(s.filenames)
  /\ client' = [client EXCEPT ![c] =
       IF CallBinds THEN Enter(s) ELSE Raise(s, "TypeError")]
  /\ UNCHANGED <<images, image_id_seq, analysis_results>>

Count(seq, Test(_)) == Cardinality(Indices(seq, Test))

\* The tally returned after the loop.
BatchReturn(c) ==
  LET s == client[c] IN
  /\ s.pc = "batch_loop"
  /\ s.fidx > Len(s.filenames)
  /\ client' = [client EXCEPT ![c] =
       [s EXCEPT !.pc = "done",
                 !.response =
                   [total |-> Len(s.filenames),
                    successful |-> Count(s.batch_results, LAMBDA r : r.success),
                    failed |-> Count(s.batch_results, LAMBDA r : ~r.success),
                    results |-> s.batch_results]]]
  /\ UNCHANGED <<images, image_id_seq, analysis_results>>

\* custom_prompt is read only by the `custom` branch of the loop: a request
\* without that kind is the same request whatever its prompt.
PromptsFor(analyses) ==
  IF \E i \in 1..Len(analyses) : analyses[i] = "custom" THEN Prompts ELSE {NoPrompt}

\* GET /results/{image_id}: the image and its analyses, or 404.
GetResults(image_id) ==
  LET hits == Indices(images, LAMBDA row : row.id = image_id)
  IN IF hits = {}
     THEN [status |-> 404, analyses |-> <<>>]
     ELSE [status |-> 200,
           image |-> [id |-> images[Min(hits)].id,
                      filename |-> images[Min(hits)].filename],
           analyses |-> SelectSeq(analysis_results,
                                  LAMBDA a : a.image_id = image_id)]

Next ==
  \/ \E c \in Clients, f \in Filenames :
       \E a \in SeqsUpTo(AnalysisTypes, MaxAnalyses) :
         \E p \in PromptsFor(a) : PostAnalyze(c, f, a, p)
  \/ \E c \in Clients : CreateImage(c)
  \/ \E c \in Clients : Analyze(c)
  \/ \E c \in Clients : RejectType(c)
  \/ \E c \in Clients : Commit(c)
  \/ \E c \in Clients, fs \in SeqsUpTo(Filenames, MaxBatch) :
       \E a \in SeqsUpTo(AnalysisTypes, MaxBatchAnalyses) : PostBatch(c, fs, a)
  \/ \E c \in Clients : BatchCall(c)
  \/ \E c \in Clients : BatchReturn(c)

Spec == Init /\ [][Next]_vars

\* ------------------------------------------------------- GET /images
\* query.join(AnalysisResult): one row of images per pair of an image and an
\* analysis of it; without the join, the rows of images.
RECURSIVE Joined(_)
Joined(rows) ==
  IF rows = <<>> THEN <<>>
  ELSE SelectSeq(images, LAMBDA img : img.id = Head(rows).image_id)
       \o Joined(Tail(rows))

Query(analyzed_only) == IF analyzed_only THEN Joined(analysis_results) ELSE images

\* order_by(Image.created_at.desc()): an insertion sort, newest first.
RECURSIVE InsertDesc(_, _)
InsertDesc(sorted, row) ==
  IF sorted = <<>> THEN <<row>>
  ELSE IF row.created_at >= Head(sorted).created_at THEN <<row>> \o sorted
  ELSE <<Head(sorted)>> \o InsertDesc(Tail(sorted), row)

RECURSIVE OrderByCreatedDesc(_)
OrderByCreatedDesc(rows) ==
  IF rows = <<>> THEN <<>>
  ELSE InsertDesc(OrderByCreatedDesc(Tail(rows)), Head(rows))

\* .limit(limit).offset(offset): the window of the ordered rows.
Window(rows, limit, offset) ==
  SubSeq(rows, offset + 1,
         IF offset + limit <= Len(rows) THEN offset + limit ELSE Len(rows))

\* Query.all() on one mapped entity: the rows fetched become objects, each
\* object once, in the order of its first row.
RECURSIVE Uniqued(_)
Uniqued(rows) ==
  IF rows = <<>> THEN <<>>
  ELSE <<Head(rows)>> \o
       Uniqued(SelectSeq(Tail(rows), LAMBDA r : r.id # Head(rows).id))

\* len(img.analyses)
AnalysisCount(image_id) ==
  Len(SelectSeq(analysis_results, LAMBDA a : a.image_id = image_id))

\* The body of list_images.
ListResponse(analyzed_only, limit, offset) ==
  LET query == Query(analyzed_only)
      page == Uniqued(Window(OrderByCreatedDesc(query), limit, offset))
  IN [total |-> Len(query),
      limit |-> limit,
      offset |-> offset,
      images |-> [i \in 1..Len(page) |->
                    [id |-> page[i].id,
                     filename |-> page[i].filename,
                     analysis_count |-> AnalysisCount(page[i].id)]]]

\* GET /images arrives and is answered.
ListImages(c, analyzed_only, limit, offset) ==
  /\ Arrives(c)
  /\ client' = [client EXCEPT ![c] =
       [@ EXCEPT !.pc = "done",
                 !.endpoint = "images",
                 !.analyzed_only = analyzed_only,
                 !.limit = limit,
                 !.offset = offset,
                 !.response = ListResponse(analyzed_only, limit, offset)]]
  /\ UNCHANGED <<images, image_id_seq, analysis_results>>

\* The stores GET /images is put to: up to three images, created one after the
\* other, and up to MaxListRows analyses, each of one of them.
ListFilenames == <<"a.jpg", "b.jpg", "c.jpg">>

StoredImages(n) ==
  [i \in 1..n |-> [id |-> i, filename |-> ListFilenames[i],
                   created_at |-> i, created_by |-> 1]]

StoredAnalysis(image_id) ==
  [image_id |-> image_id, model_name |-> OLLAMA_MODEL,
   analysis_type |-> "description", result_data |-> "a street",
   processing_time_ms |-> 1, created_by |-> 1, created_at_file |-> 1]

InitList ==
  /\ \E n \in 0..Len(ListFilenames) :
       /\ images = StoredImages(n)
       /\ image_id_seq = n
       /\ \E owners \in SeqsUpTo(1..n, MaxListRows) :
            analysis_results = [i \in 1..Len(owners) |-> StoredAnalysis(owners[i])]
  /\ client = [c \in Clients |-> Idle]

NextList ==
  \E c \in Clients, analyzed_only \in BOOLEAN,
     limit \in 0..MaxLimit, offset \in 0..MaxOffset :
       ListImages(c, analyzed_only, limit, offset)

SpecList == InitList /\ [][NextList]_vars

\* ================================================================= claims
\* What the claims speak of, spelled out apart from the operators above.
ModelKinds == {"description", "object_detection", "ocr"}
HasPrompt(s) == s.custom_prompt.given /\ s.custom_prompt.text # ""
ReachesClient(s, kind) == kind \in ModelKinds \/ (kind = "custom" /\ HasPrompt(s))
OnDisk(filename) == filename \in InputDir

Analyzing(s) == s.endpoint = "analyze"
File(s) == s.filenames[1]
Processed(s) == SubSeq(s.analyses, 1, s.idx - 1)
RowsOf(c) == SelectSeq(analysis_results, LAMBDA row : row.created_by = c)
ImagesNamed(filename) == Indices(images, LAMBDA row : row.filename = filename)
SuccessfulCalls(s) == SelectSeq(s.calls, LAMBDA k : k.result.success)
FailedCalls(s) == SelectSeq(s.calls, LAMBDA k : ~k.result.success)

\* C1: a batch over [A, B], A on disk and B not, with every model call for A
\* succeeding, reports total=2, successful=1, failed=1, persists one row per
\* requested kind that reaches the model for A, and nothing for B.
C1_BatchTally ==
  \A c \in Clients :
    LET s == client[c] IN
    ( /\ s.endpoint = "batch" /\ s.pc = "done"
      /\ Len(s.filenames) = 2
      /\ OnDisk(s.filenames[1]) /\ ~OnDisk(s.filenames[2])
      /\ FailedCalls(s) = <<>> )
    => /\ s.response.total = 2
       /\ s.response.successful = 1
       /\ s.response.failed = 1
       /\ Len(RowsOf(c)) = Len(SelectSeq(s.analyses, LAMBDA k : ReachesClient(s, k)))
       /\ ImagesNamed(s.filenames[2]) = {}

\* C2: the store never holds two Image rows with the same filename.
C2_UniqueFilename ==
  \A i, j \in 1..Len(images) :
    images[i].filename = images[j].filename => i = j

\* Two first-time requests for one filename both passed the lookup before either
\* inserted: one inserted, the other's insert was refused.
C2_Witness ==
  \E c, d \in Clients :
    /\ c # d
    /\ Analyzing(client[c]) /\ Analyzing(client[d])
    /\ File(client[c]) = File(client[d])
    /\ \E i \in 1..Len(images) : images[i].created_by = c
    /\ client[d].pc = "error" /\ client[d].error = "IntegrityError"

\* C3: an analyze request whose file is on disk never ends in an error: it ends
\* with the aggregate response.
C3_OnlyMissingFileAborts ==
  \A c \in Clients :
    (Analyzing(client[c]) /\ OnDisk(File(client[c]))) => client[c].pc # "error"

\* C4: an analyze request for a filename not on disk fails with NotFound, creates
\* no Image row and no AnalysisResult row, and never calls the model client.
C4_NotFoundPersistsNothing ==
  \A c \in Clients :
    LET s == client[c] IN
    (Analyzing(s) /\ ~OnDisk(File(s))) =>
      /\ s.pc = "error" /\ s.error = "404"
      /\ s.calls = <<>>
      /\ s.session = <<>>
      /\ RowsOf(c) = <<>>
      /\ ~\E i \in 1..Len(images) : images[i].created_by = c
      /\ ImagesNamed(File(s)) = {}

\* A request for a missing file has failed while the store holds the image and
\* the analyses of another request, which arrived first.
C4_Witness ==
  \E c, d \in Clients :
    /\ Analyzing(client[c]) /\ ~OnDisk(File(client[c]))
    /\ client[c].pc = "error" /\ client[c].error = "404"
    /\ d \in client[c].started_after
    /\ Len(images) = 1 /\ Len(RowsOf(d)) = 2

KindsOf(seq) == [i \in 1..Len(seq) |-> seq[i].analysis_type]
TimesOf(seq) == [i \in 1..Len(seq) |-> seq[i].processing_time_ms]
Requested(s) == {s.analyses[i] : i \in 1..Len(s.analyses)}
AllSucceeded(s) == Len(SuccessfulCalls(s)) = Len(s.analyses)

\* C5: two analyze calls, one after the other, for one file on disk with the
\* same analyses list and every invocation succeeding: each call adds one new
\* row per requested kind, the first call's rows stay, both responses carry the
\* same image_id, and one Image row exists for the filename.
C5_RepeatAppends ==
  \A c, d \in Clients :
    LET s == client[c]
        t == client[d]
    IN ( /\ c # d
         /\ Analyzing(s) /\ Analyzing(t)
         /\ s.pc = "done" /\ t.pc = "done"
         /\ c \in t.started_after
         /\ File(s) = File(t) /\ OnDisk(File(s))
         /\ s.analyses = t.analyses
         /\ AllSucceeded(s) /\ AllSucceeded(t) )
       => /\ KindsOf(RowsOf(c)) = s.analyses
          /\ KindsOf(RowsOf(d)) = t.analyses
          /\ analysis_results = RowsOf(c) \o RowsOf(d)
          /\ s.response.image_id = t.response.image_id
          /\ Cardinality(ImagesNamed(File(s))) = 1
          /\ \A i \in 1..Len(analysis_results) :
               analysis_results[i].image_id = s.response.image_id

\* The second of two such calls has returned, each having asked for two kinds.
C5_Witness ==
  \E c, d \in Clients :
    /\ c # d
    /\ Analyzing(client[c]) /\ Analyzing(client[d])
    /\ client[c].pc = "done" /\ client[d].pc = "done"
    /\ c \in client[d].started_after
    /\ client[c].analyses = <<"description", "ocr">>
    /\ client[d].analyses = <<"description", "ocr">>
    /\ AllSucceeded(client[c]) /\ AllSucceeded(client[d])
    /\ Len(analysis_results) = 4

\* C6: the results map of an analyze response has exactly the requested kinds as
\* keys, and processing_time_ms is the sum of the durations of the rows the
\* request persisted.
C6_KeysAndSummedDuration ==
  \A c \in Clients :
    LET s == client[c] IN
    (Analyzing(s) /\ s.pc = "done") =>
      /\ DOMAIN s.response.results = Requested(s)
      /\ s.response.processing_time_ms = SumSeq(TimesOf(RowsOf(c)))

\* description and object_detection both succeeded, in 1 ms and in 2 ms.
C6_Witness ==
  \E c \in Clients :
    /\ Analyzing(client[c]) /\ client[c].pc = "done"
    /\ client[c].analyses = <<"description", "object_detection">>
    /\ TimesOf(RowsOf(c)) = <<1, 2>>
    /\ client[c].response.processing_time_ms = 3
    /\ DOMAIN client[c].response.results = {"description", "object_detection"}

\* C7: a kind K outside {description, object_detection, ocr, custom} gets
\* {error: "Unknown analysis type: K"} in the results map, no AnalysisResult row
\* and no call of the model client, and the other kinds of the list are still
\* processed.
C7_UnknownKindIsolated ==
  \A c \in Clients :
    LET s == client[c] IN
    Analyzing(s) =>
      \A i \in 1..Len(Processed(s)) :
        LET K == s.analyses[i] IN
        K \notin ModelKinds \cup {"custom"} =>
          /\ K \in DOMAIN s.results
          /\ s.results[K] = [error |-> "Unknown analysis type: " \o K]
          /\ \A j \in 1..Len(s.calls) : s.calls[j].analysis_type # K
          /\ \A j \in 1..Len(s.session) : s.session[j].analysis_type # K
          /\ \A j \in 1..Len(RowsOf(c)) : RowsOf(c)[j].analysis_type # K
          /\ s.pc = "done" =>
               /\ s.response.results[K] = s.results[K]
               /\ KindsOf(s.calls) =
                    SelectSeq(s.analyses, LAMBDA k : ReachesClient(s, k))
               /\ DOMAIN s.response.results = Requested(s)

\* [bogus, description] has returned: an error for bogus, a row for description.
C7_Witness ==
  \E c \in Clients :
    /\ Analyzing(client[c]) /\ client[c].pc = "done"
    /\ client[c].analyses = <<"bogus", "description">>
    /\ KindsOf(RowsOf(c)) = <<"description">>
    /\ client[c].response.results["bogus"] =
         [error |-> "Unknown analysis type: bogus"]

\* C8: with no custom_prompt (absent or empty), `custom` gets an error object in
\* the results map, the model client is not called for it, no row of kind custom
\* is created, and the sibling kinds are still processed.
C8_CustomWithoutPrompt ==
  \A c \in Clients :
    LET s == client[c] IN
    (Analyzing(s) /\ ~HasPrompt(s)) =>
      \A i \in 1..Len(Processed(s)) :
        s.analyses[i] = "custom" =>
          /\ "custom" \in DOMAIN s.results
          /\ DOMAIN s.results["custom"] = {"error"}
          /\ \A j \in 1..Len(s.calls) : s.calls[j].analysis_type # "custom"
          /\ \A j \in 1..Len(s.session) : s.session[j].analysis_type # "custom"
          /\ \A j \in 1..Len(RowsOf(c)) : RowsOf(c)[j].analysis_type # "custom"
          /\ s.pc = "done" =>
               /\ DOMAIN s.response.results["custom"] = {"error"}
               /\ KindsOf(s.calls) =
                    SelectSeq(s.analyses, LAMBDA k : k \in ModelKinds)

\* [custom, ocr] with an empty custom_prompt has returned: an error for custom, a
\* row for ocr.
C8_Witness ==
  \E c \in Clients :
    /\ Analyzing(client[c]) /\ client[c].pc = "done"
    /\ client[c].analyses = <<"custom", "ocr">>
    /\ client[c].custom_prompt = [given |-> TRUE, text |-> ""]
    /\ KindsOf(RowsOf(c)) = <<"ocr">>
    /\ DOMAIN client[c].response.results["custom"] = {"error"}

\* C9: the rows of one analyze request become visible together, at the commit
\* after the last kind's attempt: until then no reader (GET /results) sees any of
\* them; and the kinds are attempted one at a time in the order of the list.
C9_CommittedAsOneUnit ==
  \A c \in Clients :
    LET s == client[c] IN
    Analyzing(s) =>
      /\ KindsOf(s.calls) = SelectSeq(Processed(s), LAMBDA k : ReachesClient(s, k))
      /\ s.pc \in {"create", "analyses"} =>
           /\ RowsOf(c) = <<>>
           /\ \A id \in 1..image_id_seq :
                \A j \in 1..Len(GetResults(id).analyses) :
                  GetResults(id).analyses[j].created_by # c
           /\ KindsOf(s.session) = KindsOf(SuccessfulCalls(s))
      /\ s.pc = "done" =>
           /\ s.idx = Len(s.analyses) + 1
           /\ KindsOf(RowsOf(c)) = KindsOf(SuccessfulCalls(s))

\* Both kinds of a request have succeeded and its commit is still to come, while
\* the store already holds the rows of another request for the same image.
C9_Witness ==
  \E c, d \in Clients :
    /\ c # d
    /\ Analyzing(client[c]) /\ client[c].pc = "analyses"
    /\ client[c].idx = 3 /\ Len(client[c].session) = 2
    /\ Len(RowsOf(d)) = 1
    /\ Len(GetResults(client[c].db_image).analyses) = 1

\* What C10 says of every state, but for the fate of a failed invocation's error.
C10_RowsAndCalls ==
  /\ \A i \in 1..Len(analysis_results) :
       /\ Cardinality(Indices(images,
            LAMBDA img : img.id = analysis_results[i].image_id)) = 1
       /\ \E j \in 1..Len(images) :
            /\ images[j].id = analysis_results[i].image_id
            /\ images[j].filename = File(client[analysis_results[i].created_by])
  /\ \A c \in Clients :
       LET s == client[c] IN
       Analyzing(s) =>
         \* one call per attempted kind: no retry
         /\ Len(s.calls) = Len(SelectSeq(Processed(s), LAMBDA k : ReachesClient(s, k)))
         \* the rows are the successful calls, and nothing else
         /\ Len(RowsOf(c)) + Len(s.session) <= Len(SuccessfulCalls(s))
         /\ s.pc = "done" =>
              /\ KindsOf(RowsOf(c)) = KindsOf(SuccessfulCalls(s))
              /\ TimesOf(RowsOf(c)) =
                   [i \in 1..Len(SuccessfulCalls(s)) |->
                      SuccessfulCalls(s)[i].result.processing_time_ms]

\* C10 as stated: every row references one existing Image and comes from a
\* successful invocation of its kind for that image; a failed invocation is made
\* once, yields no row, and its error stands under its kind's key.
C10_FailureUnderItsKey ==
  /\ C10_RowsAndCalls
  /\ \A c \in Clients :
       LET s == client[c] IN
       Analyzing(s) =>
         \A i \in 1..Len(s.calls) :
           ~s.calls[i].result.success =>
             /\ s.calls[i].analysis_type \in DOMAIN s.results
             /\ s.results[s.calls[i].analysis_type] =
                  [error |-> s.calls[i].result.error]

\* The results map holds one value per kind, that of the kind's last entry in
\* the list: a failed invocation's error stands under its kind's key when no
\* later entry of the list names the same kind.
C10_LastFailureUnderItsKey ==
  /\ C10_RowsAndCalls
  /\ \A c \in Clients :
       LET s == client[c] IN
       Analyzing(s) =>
         \A i \in 1..Len(s.calls) :
           ( /\ ~s.calls[i].result.success
             /\ \A j \in (i + 1)..Len(s.calls) :
                  s.calls[j].analysis_type # s.calls[i].analysis_type )
           => /\ s.calls[i].analysis_type \in DOMAIN s.results
              /\ s.results[s.calls[i].analysis_type] =
                   [error |-> s.calls[i].result.error]

\* No step modifies or removes a row of analysis_results.
AppendOnly ==
  /\ Len(analysis_results') >= Len(analysis_results)
  /\ SubSeq(analysis_results', 1, Len(analysis_results)) = analysis_results

\* C10, amended: as C10, with the failed invocation's error standing under its
\* kind's key unless a later entry of the same kind replaced it; and the rows of
\* analysis_results are only ever appended to.
C10_Amended == []C10_LastFailureUnderItsKey /\ [][AppendOnly]_vars

\* [ocr, description] has returned, ocr having timed out and description having
\* succeeded, while the store already held another request's row.
C10_Witness ==
  \E c, d \in Clients :
    /\ c # d
    /\ Analyzing(client[c]) /\ client[c].pc = "done"
    /\ client[c].analyses = <<"ocr", "description">>
    /\ client[c].response.results["ocr"] = [error |-> "Timeout"]
    /\ KindsOf(RowsOf(c)) = <<"description">>
    /\ d \in client[c].started_after
    /\ Len(RowsOf(d)) = 1

\* The images with at least one analysis, newest first, each once.
AnalyzedNewestFirst ==
  OrderByCreatedDesc(SelectSeq(images, LAMBDA img :
    \E i \in 1..Len(analysis_results) : analysis_results[i].image_id = img.id))

\* C11: GET /images with analyzed_only set reports as total the number of images
\* that have an analysis, and lists the window (limit, offset) of exactly those
\* images, newest first and each once, each with the number of its analyses.
C11_AnalyzedOnlyListing ==
  \A c \in Clients :
    LET s == client[c]
        expected == Window(AnalyzedNewestFirst, s.limit, s.offset)
    IN (s.endpoint = "images" /\ s.pc = "done" /\ s.analyzed_only) =>
         /\ s.response.total = Len(AnalyzedNewestFirst)
         /\ Len(s.response.images) = Len(expected)
         /\ \A i \in 1..Len(expected) :
              /\ s.response.images[i].id = expected[i].id
              /\ s.response.images[i].analysis_count =
                   Cardinality({j \in 1..Len(analysis_results) :
                                  analysis_results[j].image_id = expected[i].id})

\* C11 with every image having at most one analysis: there the join has one row
\* per analysed image.
C11_SingleAnalysisListing ==
  (\A i, j \in 1..Len(analysis_results) :
     analysis_results[i].image_id = analysis_results[j].image_id => i = j)
  => C11_AnalyzedOnlyListing

====
